---- MODULE Spec2Model ----
(***************************************************************************)
(* Course-schedule plugin (astrbot_plugin_CourseSchedule): the binding     *)
(* handlers, the occurrence cache, the recurrence expansion, the status    *)
(* classifier, the group query and the reminder sweep, as state machines.  *)
(*                                                                         *)
(* Each component has its own variables and its own specification; a       *)
(* specification holds the other components' variables at their idle       *)
(* values.                                                                 *)
(***************************************************************************)
EXTENDS Integers, Sequences, FiniteSets, TLC

VARIABLES
    \* ---- status classifier (image_generator.py, main.py:494-514) ----
    c_start, c_end, c_now,      \* inputs, in ticks (TicksPerSecond per second)
    c_pc,                       \* "input" | "done"
    c_gen,                      \* result of ImageGenerator._calculate_time_delta
    c_main,                     \* result of Main._generate_schedule_image's branch
    \* ---- recurrence expansion (Main._parse_ics_file, main.py:230-283) ----
    e_cal,                      \* the parsed calendar: a sequence of VEVENT templates
    e_now,                      \* the instant of the parse, in hours (UTC timeline)
    e_pc,                       \* "input" | "done"
    e_result,                   \* [raised, courses, reached, appended] of the expansion
    \* ---- current-or-next query of one user (schedule_helper.py:94-138) ----
    q_cal,                      \* the user's calendar
    q_now,                      \* the instant of the query, in hours (UTC timeline)
    q_target,                   \* target_date, a local day number
    q_is_today,                 \* the is_today argument
    q_pc,                       \* "input" | "done"
    q_helper,                   \* user_next_course of ScheduleHelper
    q_main,                     \* display_course of Main.show_group_schedule
    q_sched,                    \* target_courses of ScheduleHelper.get_schedule_for_date
    q_today,                    \* today_courses of Main.show_today_schedule
    q_fill,                     \* the instant the cache entry was filled
    q_entry,                    \* the list course_cache holds for the file
    \* ---- group query (main.py:328-417, schedule_helper.py:67-172) ----
    g_files,                    \* per user of the group: the file and what it parses to
    g_now,                      \* datetime.now(shanghai_tz) of the query
    g_target,                   \* target_date of the helper's query
    g_pc,                       \* "input" | "done"
    g_helper,                   \* what get_group_schedule_for_date returns
    g_main,                     \* next_courses of Main.show_group_schedule
    \* ---- reminder sweep (Main._reminder_task, main.py:637-693) ----
    r_user_data,                \* the registry the sweep iterates: a sequence of groups
    r_files,                    \* per (group, user): "none" | "bad" | "ok"
    r_clock,                    \* the wall clock, in seconds (local timeline)
    r_pc,                       \* "start" | "scan" | "due" | "send" | "sleep"
    r_now,                      \* now of the running sweep (main.py:644)
    r_gi, r_ui,                 \* position of the two for loops
    r_due,                      \* courses of the current user still to handle
    sent_reminders,             \* self.sent_reminders
    r_sweeps,                   \* sweeps begun so far
    r_examined,                 \* history: (group, user) pairs reached by this sweep
    r_log,                      \* history: notifications delivered per (user, start)
    r_raised,                   \* history: the running sweep was ended by an exception
    r_grew,                     \* the dict that gained a key under a running for loop
    \* ---- binding, cache and queries (main.py:68-326, schedule_helper.py) ----
    user_data,                  \* self.user_data: group -> {umo, users}
    binding_requests,           \* self.binding_requests: (group, user) -> timestamp
    course_cache,               \* self.course_cache: key -> cached list (by content)
    m_files,                    \* the .ics file of each (group, user), by content
    m_clock,                    \* time.time(), in seconds
    m_inflight,                 \* handle_file_message calls suspended at their await
    m_ops,                      \* handler invocations so far
    m_prerebind,                \* history: keys cached before the file's last rebinding
    m_calls, m_reads,           \* history: calls / file reads per key since invalidation
    m_loaded,                   \* history: a call read and parsed the file since then
    m_after,                    \* history: a call read the file after such a call
    m_inval,                    \* history: the key's entry was deleted by a rebinding
    m_parse,                    \* history: the last _parse_ics_file call per file
    m_out                       \* the last operation and its outcome

clsVars == <<c_start, c_end, c_now, c_pc, c_gen, c_main>>
expVars == <<e_cal, e_now, e_pc, e_result>>
qryVars == <<q_cal, q_now, q_target, q_is_today, q_pc, q_helper, q_main,
             q_sched, q_today, q_fill, q_entry>>

remVars == <<r_user_data, r_files, r_clock, r_pc, r_now, r_gi, r_ui, r_due,
             sent_reminders, r_sweeps, r_examined, r_log, r_raised, r_grew>>

mainVars == <<user_data, binding_requests, course_cache, m_files, m_clock, m_inflight,
              m_ops, m_prerebind, m_calls, m_reads, m_loaded, m_after, m_inval,
              m_parse, m_out>>

grpVars == <<g_files, g_now, g_target, g_pc, g_helper, g_main>>

vars == <<clsVars, expVars, qryVars, grpVars, remVars, mainVars>>

\* what the actions of one component leave alone
ClsFrame == UNCHANGED <<expVars, qryVars, grpVars, remVars, mainVars>>
ExpFrame == UNCHANGED <<clsVars, qryVars, grpVars, remVars, mainVars>>
QryFrame == UNCHANGED <<clsVars, expVars, grpVars, remVars, mainVars>>
GrpFrame == UNCHANGED <<clsVars, expVars, qryVars, remVars, mainVars>>
RemFrame == UNCHANGED <<clsVars, expVars, qryVars, grpVars, mainVars>>
MainFrame == UNCHANGED <<clsVars, expVars, qryVars, grpVars, remVars>>

(***************************************************************************)
(* Generic helpers                                                         *)
(***************************************************************************)
Min(a, b) == IF a <= b THEN a ELSE b
Max(a, b) == IF a >= b THEN a ELSE b
SeqRange(s) == {s[i] : i \in 1..Len(s)}
\* s without its last element
ButLast(s) == SubSeq(s, 1, Len(s) - 1)

\* Python's int(x) on a float: truncation toward zero of n/d (d > 0).
TruncDiv(n, d) == IF n >= 0 THEN n \div d ELSE -((-n) \div d)

(***************************************************************************)
(* Status classifier                                                       *)
(***************************************************************************)
\* Sub-second resolution of the instants handed to the classifier.
TicksPerSecond == 2
SecondsPerMinute == 60
MinutesPerHour == 60
SecondsPerDay == 86400

NoTime == -1                    \* Python None for start_time / end_time
NoDetail == [form |-> "none", hours |-> 0, minutes |-> 0]

\* ImageGenerator._format_duration
_format_duration(total_minutes) ==
    IF total_minutes > MinutesPerHour
    THEN [form |-> "HM", hours |-> total_minutes \div MinutesPerHour,
          minutes |-> total_minutes % MinutesPerHour]
    ELSE [form |-> "M", hours |-> 0, minutes |-> total_minutes]

\* ImageGenerator._get_finished_status
_get_finished_status == [status |-> "Finished", detail |-> NoDetail]

\* ImageGenerator._calculate_time_delta
_calculate_time_delta(start_time, end_time, now) ==
    IF start_time = NoTime \/ end_time = NoTime
    THEN _get_finished_status
    ELSE LET total_seconds_start == TruncDiv(start_time - now, TicksPerSecond)
             total_seconds_end   == TruncDiv(end_time - now, TicksPerSecond)
         IN  IF total_seconds_start < 0 /\ 0 <= total_seconds_end
             THEN [status |-> "InProgress",
                   detail |-> _format_duration(total_seconds_end \div SecondsPerMinute)]
             ELSE IF total_seconds_start > 0
             THEN [status |-> "Upcoming",
                   detail |-> _format_duration(total_seconds_start \div SecondsPerMinute)]
             ELSE _get_finished_status

\* timedelta.seconds of a non-negative difference given in ticks: the whole
\* seconds left after the days are taken out.
TimedeltaSeconds(ticks) == (ticks \div TicksPerSecond) % SecondsPerDay

\* the inline duration text of Main._generate_schedule_image
MainDuration(minutes) ==
    IF minutes > MinutesPerHour
    THEN [form |-> "HM", hours |-> minutes \div MinutesPerHour,
          minutes |-> minutes % MinutesPerHour]
    ELSE [form |-> "M", hours |-> 0, minutes |-> minutes]

\* Main._generate_schedule_image, the status branch of one row
MainStatus(start_time, end_time, now) ==
    IF start_time # NoTime /\ end_time # NoTime
    THEN IF start_time <= now /\ now < end_time
         THEN [status |-> "InProgress",
               detail |-> MainDuration(TimedeltaSeconds(end_time - now) \div SecondsPerMinute)]
         ELSE IF now < start_time
         THEN [status |-> "Upcoming",
               detail |-> MainDuration(TimedeltaSeconds(start_time - now) \div SecondsPerMinute)]
         ELSE [status |-> "Finished", detail |-> NoDetail]
    ELSE [status |-> "Finished", detail |-> NoDetail]

\* ---- inputs of the classifier specification ----
Sec(n) == n * TicksPerSecond
ClsT == Sec(7200)               \* the start instant T of the occurrence
ClsDurations == {Sec(60), Sec(3600), Sec(3660), Sec(5400), Sec(SecondsPerDay + 3600)}
ClsBefore == {Sec(3660), Sec(3600), Sec(60), Sec(1), 1}
ClsNows(s, e) ==
    {s - d : d \in ClsBefore} \cup {s, s + 1, s + Sec(1)}
    \cup {e - Sec(60), e - Sec(1), e - 1, e, e + 1, e + Sec(1), e + Sec(60)}

NoResult == [status |-> "none", detail |-> NoDetail]

ClsIdle ==
    /\ c_start = NoTime /\ c_end = NoTime /\ c_now = 0
    /\ c_pc = "idle" /\ c_gen = NoResult /\ c_main = NoResult

ClsInit ==
    /\ c_pc = "input"
    /\ c_gen = NoResult /\ c_main = NoResult
    /\ \/ /\ c_start = ClsT
          /\ \E d \in ClsDurations : c_end = ClsT + d
          /\ c_now \in ClsNows(c_start, c_end)
       \/ \* a row without an occurrence (start_time None)
          /\ c_start = NoTime /\ c_end = NoTime
          /\ c_now \in {ClsT, ClsT + 1}

\* one row is classified, by both implementations
Classify ==
    /\ c_pc = "input"
    /\ c_gen' = _calculate_time_delta(c_start, c_end, c_now)
    /\ c_main' = MainStatus(c_start, c_end, c_now)
    /\ c_pc' = "done"
    /\ UNCHANGED <<c_start, c_end, c_now>>
    /\ ClsFrame

ClsNext == Classify

(***************************************************************************)
(* Recurrence expansion.  Instants are whole hours on the UTC timeline;    *)
(* a local (UTC+8) date is the day number of instant + TzOffsetHours.      *)
(***************************************************************************)
TzOffsetHours == 8
HoursPerDay == 24
HorizonDays == 365

\* datetime.date() of an instant seen in shanghai_tz, as a day number
LocalDate(t) == (t + TzOffsetHours) \div HoursPerDay
\* the same of an instant seen in timezone.utc
UtcDate(t) == t \div HoursPerDay
\* the instant at which local day d starts
LocalDayStart(d) == d * HoursPerDay - TzOffsetHours

NoCount == 0                    \* the rule has no COUNT
NoUntil == -1                   \* the rule has no UNTIL

EndOfLocalDay_Start(d) == LocalDayStart(d)

\* datetime.combine(d, dt_time.max) in shanghai_tz: the last instant of local
\* day d (23:59:59.999999), which on the hour grid is the day's last hour
EndOfLocalDay(d) == LocalDayStart(d + 1) - 1

\* main.py:254-260: the UNTIL the rule is built with; a bare date is taken to
\* the end of that local day
UntilUtc(rule) ==
    IF rule.until_date # NoUntil THEN EndOfLocalDay(rule.until_date)
    ELSE rule.until

\* dateutil's rule set, as main.py:263 builds it from dtstart_utc: the
\* instants dtstart + k * interval days, the first COUNT of them when COUNT
\* is given and those not after UNTIL when UNTIL is given; listed up to upto.
RuleInstants(t, upto) ==
    LET step == t.rule.interval * HoursPerDay
        byUpto == IF upto < t.dtstart THEN 0 ELSE (upto - t.dtstart) \div step + 1
        until == UntilUtc(t.rule)
        byUntil == IF until = NoUntil THEN byUpto
                   ELSE IF until < t.dtstart THEN 0
                   ELSE (until - t.dtstart) \div step + 1
        byCount == IF t.rule.count = NoCount THEN byUpto ELSE t.rule.count
        n == Min(byUpto, Min(byUntil, byCount))
    IN  [i \in 1..n |-> t.dtstart + (i - 1) * step]

\* rrule.between(after, before, inc=True)
RuleBetween(t, after, before) ==
    LET InWindow(x) == after <= x /\ x <= before
    IN  SelectSeq(RuleInstants(t, before), InWindow)

\* main.py:265: datetime.now(timezone.utc).replace(hour=0, ...)
StartOfTodayUtc(now) == UtcDate(now) * HoursPerDay

Course(idx, t, start) ==
    [summary |-> idx, start_time |-> start, end_time |-> start + t.dur]

SingleEvent_UtcDay(idx, t, now) ==
    IF LocalDate(t.dtstart) >= UtcDate(now)
    THEN <<Course(idx, t, t.dtstart)>>
    ELSE <<>>

\* main.py:232, 275-279: a VEVENT without a rule
SingleEvent(idx, t, now) ==
    IF LocalDate(t.dtstart) >= LocalDate(now)
    THEN <<Course(idx, t, t.dtstart)>>
    ELSE <<>>

\* main.py:253-279: the occurrences one VEVENT contributes
ExpandTemplate(idx, t, now) ==
    IF t.rule.kind = "rrule"
    THEN LET start_of_today_utc == StartOfTodayUtc(now)
             future_limit_utc == start_of_today_utc + HorizonDays * HoursPerDay
             occ == RuleBetween(t, start_of_today_utc, future_limit_utc)
         IN  [i \in 1..Len(occ) |-> Course(idx, t, occ[i])]
    ELSE SingleEvent(idx, t, now)

\* rrulestr raises ValueError on a rule it cannot parse (main.py:263); nothing
\* in _parse_ics_file catches it.
RuleRaises(t) == t.rule.kind = "malformed"

RECURSIVE ExpandFrom(_, _, _)
ExpandFrom(cal, i, now) ==
    IF i > Len(cal) THEN <<>>
    ELSE ExpandTemplate(i, cal[i], now) \o ExpandFrom(cal, i + 1, now)

\* the VEVENTs the loop gets through: all, or those before the first whose
\* rule raises
Reached(cal) ==
    IF \E i \in 1..Len(cal) : RuleRaises(cal[i])
    THEN (CHOOSE i \in 1..Len(cal) :
              RuleRaises(cal[i]) /\ \A j \in 1..(i - 1) : ~RuleRaises(cal[j])) - 1
    ELSE Len(cal)

\* main.py:234-283: the loop over cal.walk().  appended is the local list
\* courses when the function is left, courses what the caller receives.
ExpandCalendar(cal, now) ==
    LET reached == Reached(cal)
        appended == ExpandFrom(SubSeq(cal, 1, reached), 1, now)
    IN  IF reached < Len(cal)
        THEN [raised |-> TRUE, courses |-> <<>>, reached |-> reached, appended |-> appended]
        ELSE [raised |-> FALSE, courses |-> appended, reached |-> reached,
              appended |-> appended]

\* ---- inputs of the expansion specification ----
RefDay == 10                    \* the UTC day the parse instants lie in
ExpNows == {RefDay * HoursPerDay + h : h \in {2, 15, 17}}
ExpStarts == {(RefDay - 1) * HoursPerDay + h : h \in {3, 20}}
               \cup {RefDay * HoursPerDay + h : h \in {-3, 5}}
NoRule == [kind |-> "none", interval |-> 1, count |-> NoCount, until |-> NoUntil, until_date |-> NoUntil]
BadRule == [kind |-> "malformed", interval |-> 1, count |-> NoCount, until |-> NoUntil, until_date |-> NoUntil]
ExpRules ==
    {NoRule, BadRule}
    \cup {[kind |-> "rrule", interval |-> iv, count |-> NoCount, until |-> NoUntil, until_date |-> NoUntil] : iv \in {1, 7}}
    \cup {[kind |-> "rrule", interval |-> 1, count |-> 3, until |-> NoUntil, until_date |-> NoUntil]}
    \cup {[kind |-> "rrule", interval |-> 1, count |-> NoCount,
           until |-> (RefDay + 2) * HoursPerDay + 5, until_date |-> NoUntil]}
    \cup {[kind |-> "rrule", interval |-> 1, count |-> NoCount,
           until |-> NoUntil, until_date |-> d] : d \in {RefDay, RefDay + 2}}
ExpTemplates == [dtstart : ExpStarts, dur : {2}, rule : ExpRules]
MaxTemplates == 2
ExpCalendars == UNION {[1..n -> ExpTemplates] : n \in 1..MaxTemplates}

NoExpansion == [raised |-> FALSE, courses |-> <<>>, reached |-> 0, appended |-> <<>>]

ExpIdle == e_cal = <<>> /\ e_now = 0 /\ e_pc = "idle" /\ e_result = NoExpansion

ExpInit ==
    /\ e_cal \in ExpCalendars
    /\ e_now \in ExpNows
    /\ e_pc = "input"
    /\ e_result = NoExpansion

\* one calendar text is expanded at e_now
Expand ==
    /\ e_pc = "input"
    /\ e_result' = ExpandCalendar(e_cal, e_now)
    /\ e_pc' = "done"
    /\ UNCHANGED <<e_cal, e_now>>
    /\ ExpFrame

ExpNext == Expand

(***************************************************************************)
(* Current-or-next occurrence of one user (the body of the per-user loop   *)
(* of ScheduleHelper.get_group_schedule_for_date and of                    *)
(* Main.show_group_schedule).                                              *)
(***************************************************************************)
NoCourse == [summary |-> 0, start_time |-> NoTime, end_time |-> NoTime]

\* schedule_helper.py:97-101 / main.py:353
TargetDateCourses(courses, target_date) ==
    LET OnDay(c) == c.start_time # NoTime /\ LocalDate(c.start_time) = target_date
    IN  SelectSeq(courses, OnDay)

\* schedule_helper.py:121-125 / main.py:367-368: the future course kept so far
\* is replaced when the new one starts earlier.
KeepFuture_First(future, course) ==
    IF future = NoCourse THEN course ELSE future

KeepFuture(future, course) ==
    IF future = NoCourse \/ course.start_time < future.start_time
    THEN course ELSE future

\* schedule_helper.py:109-125 / main.py:355-368: the scan with its break
RECURSIVE ScanToday(_, _, _, _)
ScanToday(day, i, now, future) ==
    IF i > Len(day) THEN [current |-> NoCourse, future |-> future]
    ELSE LET course == day[i]
         IN  IF course.start_time <= now /\ now < course.end_time
             THEN [current |-> course, future |-> future]
             ELSE IF course.start_time > now
             THEN ScanToday(day, i + 1, now, KeepFuture(future, course))
             ELSE ScanToday(day, i + 1, now, future)

\* schedule_helper.py:133-138: the earliest course of the day
RECURSIVE ScanEarliest(_, _, _)
ScanEarliest(day, i, best) ==
    IF i > Len(day) THEN best
    ELSE ScanEarliest(day, i + 1, KeepFuture(best, day[i]))

HelperCurrentOrNext_AlwaysToday(courses, target_date, is_today, now) ==
    LET day == TargetDateCourses(courses, target_date)
        r == ScanToday(day, 1, now, NoCourse)
    IN  IF r.current # NoCourse THEN r.current ELSE r.future

\* schedule_helper.py:96-138
HelperCurrentOrNext(courses, target_date, is_today, now) ==
    LET day == TargetDateCourses(courses, target_date)
    IN  IF is_today
        THEN LET r == ScanToday(day, 1, now, NoCourse)
             IN  IF r.current # NoCourse THEN r.current ELSE r.future
        ELSE ScanEarliest(day, 1, NoCourse)

\* main.py:352-371
MainCurrentOrNext(courses, now) ==
    LET day == TargetDateCourses(courses, LocalDate(now))
        r == ScanToday(day, 1, now, NoCourse)
    IN  IF r.current # NoCourse THEN r.current ELSE r.future

\* list.sort(key=lambda x: x["start_time"]): a stable sort by start
RECURSIVE InsertByStart(_, _)
InsertByStart(sorted, c) ==
    IF sorted = <<>> THEN <<c>>
    ELSE IF Head(sorted).start_time <= c.start_time
         THEN <<Head(sorted)>> \o InsertByStart(Tail(sorted), c)
         ELSE <<c>> \o sorted

RECURSIVE SortByStart(_)
SortByStart(courses) ==
    IF courses = <<>> THEN <<>>
    ELSE InsertByStart(SortByStart(ButLast(courses)), courses[Len(courses)])

KeptForDate_AtOrAfter(c, target_date, now) ==
    /\ LocalDate(c.start_time) = target_date
    /\ (target_date = LocalDate(now) => c.start_time >= now)

\* schedule_helper.py:35-42: a course of target_date is kept; when target_date
\* is today's date only if it starts after now.  The clock reads of one call
\* are taken at the one instant now.
KeptForDate(c, target_date, now) ==
    /\ LocalDate(c.start_time) = target_date
    /\ (target_date = LocalDate(now) => c.start_time > now)

\* schedule_helper.py:33-54: target_courses of get_schedule_for_date
ScheduleForDate(courses, target_date, now) ==
    LET Kept(c) == KeptForDate(c, target_date, now)
    IN  SortByStart(SelectSeq(courses, Kept))

\* main.py:304-319: today_courses of show_today_schedule
TodaySchedule(courses, now) ==
    LET Kept(c) == LocalDate(c.start_time) = LocalDate(now) /\ c.start_time > now
    IN  SortByStart(SelectSeq(courses, Kept))

\* ---- inputs of the query specification ----
QryNows == {RefDay * HoursPerDay + h : h \in {2, 4}}
QryStarts == {RefDay * HoursPerDay + h : h \in {1, 2, 3, 5}}
QryRules == {NoRule, [kind |-> "rrule", interval |-> 1, count |-> 2, until |-> NoUntil, until_date |-> NoUntil]}
QryTemplates == [dtstart : QryStarts, dur : {1, 3}, rule : QryRules]
MaxQryTemplates == 2
QryCalendars == UNION {[1..n -> QryTemplates] : n \in 0..MaxQryTemplates}

QryIdle ==
    /\ q_cal = <<>> /\ q_now = 0 /\ q_target = 0 /\ q_is_today = FALSE
    /\ q_pc = "idle" /\ q_helper = NoCourse /\ q_main = NoCourse
    /\ q_sched = <<>> /\ q_today = <<>> /\ q_fill = 0 /\ q_entry = <<>>

QryInit ==
    /\ q_cal \in QryCalendars
    /\ q_now \in QryNows
    /\ q_target \in {LocalDate(q_now), LocalDate(q_now) + 1}
    /\ q_is_today \in BOOLEAN
    /\ q_pc = "input"
    /\ q_helper = NoCourse /\ q_main = NoCourse
    /\ q_sched = <<>> /\ q_today = <<>>
    /\ q_fill = q_now /\ q_entry = <<>>

\* what the queries make of the list _parse_ics_file hands them
Answer(courses) ==
    /\ q_helper' = HelperCurrentOrNext(courses, q_target, q_is_today, q_now)
    /\ q_main' = MainCurrentOrNext(courses, q_now)
    /\ q_sched' = ScheduleForDate(courses, q_target, q_now)
    /\ q_today' = TodaySchedule(courses, q_now)

\* the user's list is parsed and the course to display is picked
PickCourse ==
    /\ q_pc = "input"
    /\ Answer(ExpandCalendar(q_cal, q_now).courses)
    /\ q_pc' = "done"
    /\ UNCHANGED <<q_cal, q_now, q_target, q_is_today, q_fill, q_entry>>
    /\ QryFrame

QryNext == PickCourse

\* ---- the same queries served from course_cache ----
CachedNow == RefDay * HoursPerDay + 1            \* 09:00 local on day RefDay
\* the entry was filled by this query, at 06:00 local of the same day, or
\* more than a horizon earlier
CachedFills == {CachedNow, CachedNow - 3, CachedNow - (HorizonDays + 1) * HoursPerDay}
CachedStarts == {CachedNow - 2, CachedNow + 1,
                 CachedNow + 1 - (HorizonDays + 1) * HoursPerDay}
CachedRules == {NoRule, [kind |-> "rrule", interval |-> 1, count |-> NoCount,
                         until |-> NoUntil, until_date |-> NoUntil]}
CachedTemplates == [dtstart : CachedStarts, dur : {1, 3}, rule : CachedRules]
CachedCalendars == UNION {[1..n -> CachedTemplates] : n \in 0..MaxQryTemplates}

CachedInit ==
    /\ q_cal \in CachedCalendars
    /\ q_now = CachedNow
    /\ q_fill \in CachedFills
    /\ q_target \in {LocalDate(q_now), LocalDate(q_now) + 1}
    /\ q_is_today = (q_target = LocalDate(q_now))
    /\ q_pc = "input"
    /\ q_helper = NoCourse /\ q_main = NoCourse
    /\ q_sched = <<>> /\ q_today = <<>>
    /\ q_entry = <<>>

\* main.py:230-283: the first call for the file, at q_fill, parses it and
\* stores the list
FillCache ==
    /\ q_pc = "input"
    /\ q_entry' = ExpandCalendar(q_cal, q_fill).courses
    /\ q_pc' = "cached"
    /\ UNCHANGED <<q_cal, q_now, q_target, q_is_today, q_fill,
                   q_helper, q_main, q_sched, q_today>>
    /\ QryFrame

\* main.py:219-220: a call at q_now finds the key and returns the stored list
ServeFromCache ==
    /\ q_pc = "cached"
    /\ Answer(q_entry)
    /\ q_pc' = "done"
    /\ UNCHANGED <<q_cal, q_now, q_target, q_is_today, q_fill, q_entry>>
    /\ QryFrame

CachedNext == FillCache \/ ServeFromCache

(***************************************************************************)
(* The group query: one entry per user of the group whose file is there.   *)
(***************************************************************************)
GrpUsers == <<"u1", "u2", "u3">>        \* the group's users, in registry order
GrpNows == {RefDay * HoursPerDay + h : h \in {2, 4}}       \* 10:00, 12:00 local
GrpCourse(idx, h, dur) ==
    [summary |-> idx, start_time |-> RefDay * HoursPerDay + h,
     end_time |-> RefDay * HoursPerDay + h + dur]
\* what _parse_ics_file returns for a file that parses
GrpLists ==
    { <<>>,
      << GrpCourse(1, 1, 2) >>,                         \* 09:00-11:00
      << GrpCourse(2, 5, 1) >>,                         \* 13:00-14:00
      << GrpCourse(2, 5, 1), GrpCourse(3, 3, 2) >>,     \* 13:00-14:00, 11:00-13:00
      << GrpCourse(4, 0, 1) >>,                         \* 08:00-09:00
      << GrpCourse(5, HoursPerDay + 1, 2) >> }          \* tomorrow 09:00-11:00
GrpFiles ==
    {[state |-> "none", courses |-> <<>>], [state |-> "bad", courses |-> <<>>]}
    \cup {[state |-> "ok", courses |-> l] : l \in GrpLists}

NoAnswer == [outcome |-> "none", list |-> <<>>]

GrpIdle ==
    /\ g_files = <<>> /\ g_now = 0 /\ g_target = 0 /\ g_pc = "idle"
    /\ g_helper = NoAnswer /\ g_main = NoAnswer

GrpInit ==
    /\ g_files \in [1..Len(GrpUsers) -> GrpFiles]
    /\ g_now \in GrpNows
    /\ g_target \in {LocalDate(g_now), LocalDate(g_now) + 1}
    /\ g_pc = "input"
    /\ g_helper = NoAnswer /\ g_main = NoAnswer

\* schedule_helper.py:141-163 / main.py:374-396: the entry of one user, for
\* the course picked or, with none picked, the placeholder (start_time None)
GroupEntry(user_id, course) ==
    [user_id |-> user_id, summary |-> course.summary,
     start_time |-> course.start_time, end_time |-> course.end_time]

\* schedule_helper.py:88-163 / main.py:342-396: the loop over the group's
\* users.  A user without a file is passed over; a file Calendar.from_ical
\* or rrulestr cannot take makes the call raise out of the query.
RECURSIVE CollectEntries(_, _, _, _, _)
CollectEntries(files, i, helper, target_date, now) ==
    IF i > Len(GrpUsers) THEN [raised |-> FALSE, list |-> <<>>]
    ELSE IF files[i].state = "none"
    THEN CollectEntries(files, i + 1, helper, target_date, now)
    ELSE IF files[i].state = "bad" THEN [raised |-> TRUE, list |-> <<>>]
    ELSE LET course == IF helper
                       THEN HelperCurrentOrNext(files[i].courses, target_date,
                                                target_date = LocalDate(now), now)
                       ELSE MainCurrentOrNext(files[i].courses, now)
             rest == CollectEntries(files, i + 1, helper, target_date, now)
         IN  IF rest.raised THEN rest
             ELSE [raised |-> FALSE,
                   list |-> <<GroupEntry(GrpUsers[i], course)>> \o rest.list]

GroupSortKey_StartOnly(x) == <<FALSE, x.start_time>>

\* schedule_helper.py:170 / main.py:403:
\* key=lambda x: (x["start_time"] is None, x["start_time"])
GroupSortKey(x) == <<x.start_time = NoTime, x.start_time>>

\* the order of two such keys as Python compares tuples
KeyLeq(a, b) == IF a[1] = b[1] THEN a[2] <= b[2] ELSE ~a[1]

\* list.sort, which is stable
RECURSIVE InsertByKey(_, _)
InsertByKey(sorted, x) ==
    IF sorted = <<>> THEN <<x>>
    ELSE IF KeyLeq(GroupSortKey(Head(sorted)), GroupSortKey(x))
         THEN <<Head(sorted)>> \o InsertByKey(Tail(sorted), x)
         ELSE <<x>> \o sorted

RECURSIVE SortByKey(_)
SortByKey(entries) ==
    IF entries = <<>> THEN <<>>
    ELSE InsertByKey(SortByKey(ButLast(entries)), entries[Len(entries)])

\* schedule_helper.py:165-172 / main.py:398-403
GroupAnswer(files, helper, target_date, now) ==
    LET r == CollectEntries(files, 1, helper, target_date, now)
    IN  IF r.raised THEN [outcome |-> "raised", list |-> <<>>]
        ELSE IF r.list = <<>> THEN [outcome |-> "nobody", list |-> <<>>]
        ELSE [outcome |-> "list", list |-> SortByKey(r.list)]

\* both group queries run on the same files at the same instant
GroupSchedule ==
    /\ g_pc = "input"
    /\ g_helper' = GroupAnswer(g_files, TRUE, g_target, g_now)
    /\ g_main' = GroupAnswer(g_files, FALSE, LocalDate(g_now), g_now)
    /\ g_pc' = "done"
    /\ UNCHANGED <<g_files, g_now, g_target>>
    /\ GrpFrame

GrpNext == GroupSchedule

(***************************************************************************)
(* Reminder sweep.  The clock is in seconds on the local timeline; the     *)
(* courses a user's parsed list holds are given per (group, user).         *)
(***************************************************************************)
ReminderLo == 1800
ReminderHi == 1860
SleepSeconds == 60

LocalDateS(t) == t \div SecondsPerDay

RemT0 == SecondsPerDay - 2000   \* the clock when the task starts (23:26:40)
RemStartA == RemT0 + 1860       \* a course of today
RemStartB == SecondsPerDay + 30 \* a course of tomorrow, 00:00:30
RemStartC == RemT0 + 1920       \* a later course of today
RemCourse(name, start) == [summary |-> name, start_time |-> start, end_time |-> start + 2700]

RemEntries == {<<"g1", "u1">>, <<"g1", "u2">>, <<"g2", "u1">>}
\* what _parse_ics_file returns for the user's file when it parses
RemCoursesOf(e) ==
    IF e = <<"g1", "u1">>
    THEN <<RemCourse("math", RemStartA), RemCourse("lab", RemStartA), RemCourse("night", RemStartB)>>
    ELSE IF e = <<"g1", "u2">>
    THEN <<RemCourse("art", RemStartC), RemCourse("math", RemStartA)>>
    ELSE <<RemCourse("math", RemStartA)>>
RemStarts == {RemStartA, RemStartB, RemStartC}
RemPairs == {"u1", "u2"} \X RemStarts

\* main.py:668: (user_id, start_time.strftime("%Y-%m-%d %H:%M"))
ReminderKey(user_id, start_time) == <<user_id, start_time \div SecondsPerMinute>>

AlreadySent_Never(key, sent) == FALSE

\* main.py:669
AlreadySent(key, sent) == key \in sent

DueCourses_Closed(courses, now) ==
    LET Due(c) == /\ LocalDateS(c.start_time) = LocalDateS(now)
                  /\ ReminderLo <= c.start_time - now
                  /\ c.start_time - now <= ReminderHi
    IN  SelectSeq(courses, Due)

\* main.py:660-667: today's courses whose start lies in the window
DueCourses(courses, now) ==
    LET Due(c) == /\ LocalDateS(c.start_time) = LocalDateS(now)
                  /\ ReminderLo <= c.start_time - now
                  /\ c.start_time - now < ReminderHi
    IN  SelectSeq(courses, Due)

\* delays the loop adds to its 60 s sleep (the time the sweep itself took)
RemJitter == {0, 1, 30}
MaxSweeps == 4

RemGroup(gi) == r_user_data[gi]
RemUser(gi, ui) == r_user_data[gi].users[ui]
RemEntry(gi, ui) == <<RemGroup(gi).gid, RemUser(gi, ui).uid>>

RemIdle ==
    /\ r_user_data = <<>> /\ r_files = <<>> /\ r_clock = 0 /\ r_pc = "idle"
    /\ r_now = 0 /\ r_gi = 0 /\ r_ui = 0 /\ r_due = <<>>
    /\ sent_reminders = {} /\ r_sweeps = 0 /\ r_examined = {} /\ r_log = <<>>
    /\ r_raised = FALSE /\ r_grew = "none"

RemInit ==
    /\ \E f1, f2, f3, umo2 \in BOOLEAN :
         r_user_data =
           << [gid |-> "g1", umo |-> TRUE,
               users |-> << [uid |-> "u1", reminder |-> f1], [uid |-> "u2", reminder |-> f2] >>],
              [gid |-> "g2", umo |-> umo2,
               users |-> << [uid |-> "u1", reminder |-> f3] >>] >>
    /\ r_files \in [RemEntries -> {"none", "bad", "ok"}]
    /\ r_clock = RemT0
    /\ r_pc = "start"
    /\ r_now = 0 /\ r_gi = 0 /\ r_ui = 0 /\ r_due = <<>>
    /\ sent_reminders = {}
    /\ r_sweeps = 0
    /\ r_examined = {}
    /\ r_log = [p \in RemPairs |-> 0]
    /\ r_raised = FALSE
    /\ r_grew = "none"

\* main.py:641-646: the top of the while loop
BeginSweep ==
    /\ r_pc = "start"
    /\ RemFrame
    /\ r_sweeps < MaxSweeps
    /\ r_sweeps' = r_sweeps + 1
    /\ r_now' = r_clock
    /\ r_gi' = 1 /\ r_ui' = 1
    /\ r_examined' = {}
    /\ r_raised' = FALSE
    /\ r_grew' = "none"                 \* the for loops take new iterators
    /\ r_pc' = "scan"
    /\ UNCHANGED <<r_user_data, r_files, r_clock, r_due, sent_reminders, r_log>>

\* main.py:689-693: the sweep is over, normally or by an exception
EndSweep == r_pc' = "sleep" /\ r_due' = <<>>

\* main.py:646-660: the two for loops reach the next user
ExamineUser ==
    /\ r_pc = "scan"
    /\ RemFrame
    /\ UNCHANGED <<r_user_data, r_files, r_clock, r_now, sent_reminders, r_sweeps, r_log,
                   r_grew>>
    /\ IF r_grew = "users"
       THEN \* main.py:650: the users dict of this group changed size, the
            \* iterator's next step raises RuntimeError; caught at main.py:689
            EndSweep /\ r_raised' = TRUE /\ UNCHANGED <<r_gi, r_ui, r_examined>>
       ELSE IF r_gi > Len(r_user_data)
       THEN EndSweep /\ UNCHANGED <<r_gi, r_ui, r_examined, r_raised>>
       ELSE IF ~RemGroup(r_gi).umo \/ r_ui > Len(RemGroup(r_gi).users)
       THEN IF r_grew = "groups"
            THEN \* main.py:646: self.user_data changed size, the same way
                 EndSweep /\ r_raised' = TRUE /\ UNCHANGED <<r_gi, r_ui, r_examined>>
            ELSE /\ r_gi' = r_gi + 1 /\ r_ui' = 1
                 /\ UNCHANGED <<r_pc, r_due, r_examined, r_raised>>
       ELSE LET e == RemEntry(r_gi, r_ui)
            IN  /\ r_examined' = r_examined \cup {e}
                /\ IF ~RemUser(r_gi, r_ui).reminder \/ r_files[e] = "none"
                   THEN /\ r_ui' = r_ui + 1
                        /\ UNCHANGED <<r_gi, r_pc, r_due, r_raised>>
                   ELSE IF r_files[e] = "bad"
                   THEN \* Calendar.from_ical raises; caught at main.py:689
                        EndSweep /\ r_raised' = TRUE /\ UNCHANGED <<r_gi, r_ui>>
                   ELSE /\ r_due' = DueCourses(RemCoursesOf(e), r_now)
                        /\ r_pc' = "due"
                        /\ UNCHANGED <<r_gi, r_ui, r_raised>>

\* main.py:662-670: the loop over today's courses, up to the await
NextCourse ==
    /\ r_pc = "due"
    /\ RemFrame
    /\ UNCHANGED <<r_user_data, r_files, r_clock, r_now, r_gi, sent_reminders,
                   r_sweeps, r_examined, r_log, r_raised, r_grew>>
    /\ IF r_due = <<>>
       THEN r_ui' = r_ui + 1 /\ r_pc' = "scan" /\ UNCHANGED r_due
       ELSE IF AlreadySent(ReminderKey(RemUser(r_gi, r_ui).uid, Head(r_due).start_time),
                           sent_reminders)
       THEN r_due' = Tail(r_due) /\ UNCHANGED <<r_pc, r_ui>>
       ELSE r_pc' = "send" /\ UNCHANGED <<r_due, r_ui>>

\* main.py:685-687: send_message returns
SendOk ==
    /\ r_pc = "send"
    /\ RemFrame
    /\ LET uid == RemUser(r_gi, r_ui).uid
           start == Head(r_due).start_time
       IN  /\ sent_reminders' = sent_reminders \cup {ReminderKey(uid, start)}
           /\ r_log' = [r_log EXCEPT ![<<uid, start>>] = @ + 1]
    /\ r_due' = Tail(r_due)
    /\ r_pc' = "due"
    /\ UNCHANGED <<r_user_data, r_files, r_clock, r_now, r_gi, r_ui, r_sweeps, r_examined,
                   r_raised, r_grew>>

\* the key is recorded before the send is known to have gone through
SendRaises_Records ==
    /\ r_pc = "send"
    /\ RemFrame
    /\ EndSweep
    /\ r_raised' = TRUE
    /\ sent_reminders' = sent_reminders
           \cup {ReminderKey(RemUser(r_gi, r_ui).uid, Head(r_due).start_time)}
    /\ UNCHANGED <<r_user_data, r_files, r_clock, r_now, r_gi, r_ui,
                   r_sweeps, r_examined, r_log, r_grew>>

\* the exception leaves the while loop and the task ends
SendRaises_Stops ==
    /\ r_pc = "send"
    /\ RemFrame
    /\ r_pc' = "stopped" /\ r_due' = <<>>
    /\ r_raised' = TRUE
    /\ UNCHANGED <<r_user_data, r_files, r_clock, r_now, r_gi, r_ui, sent_reminders,
                   r_sweeps, r_examined, r_log, r_grew>>

\* main.py:685, 689: send_message raises
SendRaises ==
    /\ r_pc = "send"
    /\ RemFrame
    /\ EndSweep
    /\ r_raised' = TRUE
    /\ UNCHANGED <<r_user_data, r_files, r_clock, r_now, r_gi, r_ui, sent_reminders,
                   r_sweeps, r_examined, r_log, r_grew>>

\* main.py:693: asyncio.sleep(60) returns
WakeUp ==
    /\ r_pc = "sleep"
    /\ RemFrame
    /\ \E j \in RemJitter : r_clock' = r_clock + SleepSeconds + j
    /\ r_pc' = "start"
    /\ UNCHANGED <<r_user_data, r_files, r_now, r_gi, r_ui, r_due, sent_reminders,
                   r_sweeps, r_examined, r_log, r_raised, r_grew>>

RemNext ==
    \/ BeginSweep
    \/ ExamineUser
    \/ NextCourse
    \/ SendOk
    \/ SendRaises
    \/ WakeUp

\* the task when every send_message goes through
RemNextSendsOk ==
    \/ BeginSweep
    \/ ExamineUser
    \/ NextCourse
    \/ SendOk
    \/ WakeUp

NewUser == [uid |-> "u3", reminder |-> FALSE]
NewGroup == [gid |-> "g3", umo |-> TRUE, users |-> << NewUser >>]
Registered(uid) ==
    \E gi \in 1..Len(r_user_data) :
        \E ui \in 1..Len(RemGroup(gi).users) : RemUser(gi, ui).uid = uid

\* Main.handle_file_message completes a first binding (main.py:166-175)
\* while the sweep is suspended in send_message (main.py:685): of a new user
\* in the group the sweep is in ("users"), in another registered group
\* ("elsewhere") or in a group the registry did not have ("groups").
BindDuringSend(where) ==
    /\ r_pc = "send"
    /\ RemFrame
    /\ ~Registered(NewUser.uid)
    /\ \/ /\ where = "users"
          /\ r_user_data' = [r_user_data EXCEPT ![r_gi].users = Append(@, NewUser)]
          /\ r_grew' = "users"
       \/ /\ where = "elsewhere"
          /\ \E gi \in 1..Len(r_user_data) :
                /\ gi # r_gi
                /\ r_user_data' = [r_user_data EXCEPT ![gi].users = Append(@, NewUser)]
          /\ UNCHANGED r_grew
       \/ /\ where = "groups"
          /\ r_user_data' = Append(r_user_data, NewGroup)
          /\ r_grew' = "groups"
    /\ UNCHANGED <<r_files, r_clock, r_pc, r_now, r_gi, r_ui, r_due, sent_reminders,
                   r_sweeps, r_examined, r_log, r_raised>>

RemNextBinding ==
    \/ RemNextSendsOk
    \/ \E where \in {"users", "elsewhere", "groups"} : BindDuringSend(where)

(***************************************************************************)
(* Binding, occurrence cache and queries.  A calendar file is known by its *)
(* content: NoFile (no file on disk), "bad" (Calendar.from_ical raises),   *)
(* "calA" (parses; holds a course later today), "calB" (parses; holds no   *)
(* course for today).                                                      *)
(***************************************************************************)
MGroups == {"g1"}
MUsers == {"u1", "u2"}
MEntries == MGroups \X MUsers
NoFile == "none"
Contents == {"calA", "calB", "bad"}
HasCourseToday(content) == content = "calA"

KeyForms == {"str", "path"}     \* str(ics_file_path) and the Path object itself
CacheKeys == KeyForms \X MEntries
NoEntry == "absent"
\* a str and a Path of the same file are different dictionary keys
CacheKey(form, e) == <<form, e>>

NoUmo == "none"
NoGroup == [present |-> FALSE, umo |-> NoUmo, users |-> <<>>]
NoRequest == -1
RequestTimeout == 60
TickSeconds == 30
MaxTicks == 3
MaxInflight == 2
MaxOps == 6

UserIndex(users, uid) ==
    IF \E i \in 1..Len(users) : users[i].uid = uid
    THEN CHOOSE i \in 1..Len(users) : users[i].uid = uid
    ELSE 0

\* main.py:291-292 and its copies: the user has an entry in the registry
IsBound(ud, e) == ud[e[1]].present /\ UserIndex(ud[e[1]].users, e[2]) # 0

CacheHit_Never(cache, key) == FALSE

\* main.py:219
CacheHit(cache, key) == cache[key] # NoEntry

NoParse == [form |-> "none", outcome |-> "none", content |-> NoFile, stale |-> FALSE]
Cap2(n) == IF n >= 2 THEN 2 ELSE n

\* The pieces of state a _parse_ics_file call reads and writes, with the
\* history of the calls, threaded through the loops that call it.
ParseState ==
    [cache |-> course_cache, files |-> m_files, prerebind |-> m_prerebind,
     calls |-> m_calls, reads |-> m_reads, loaded |-> m_loaded, after |-> m_after,
     parse |-> m_parse, raised |-> FALSE, ret |-> NoFile]

\* Main._parse_ics_file, called with the key in the given form for the file of e
_parse_ics_file(st, form, e) ==
    LET key == CacheKey(form, e)
        called == [st EXCEPT !.calls[key] = Cap2(@ + 1)]
        read == [called EXCEPT !.reads[key] = Cap2(@ + 1),
                               !.after[key] = @ \/ st.loaded[key]]
        content == st.files[e]
    IN  IF CacheHit(st.cache, key)
        THEN [called EXCEPT
                !.ret = st.cache[key],
                !.parse[e] = [form |-> form, outcome |-> "hit", content |-> st.cache[key],
                              stale |-> key \in st.prerebind]]
        ELSE IF content = NoFile
        THEN \* main.py:226-228
             [read EXCEPT
                !.ret = NoFile,
                !.parse[e] = [form |-> form, outcome |-> "unreadable", content |-> NoFile,
                              stale |-> FALSE]]
        ELSE IF content = "bad"
        THEN \* main.py:230 raises
             [read EXCEPT
                !.raised = TRUE,
                !.ret = NoFile,
                !.parse[e] = [form |-> form, outcome |-> "raised", content |-> NoFile,
                              stale |-> FALSE]]
        ELSE \* main.py:282-283
             [read EXCEPT
                !.cache[key] = content,
                !.loaded[key] = TRUE,
                !.prerebind = @ \ {key},
                !.ret = content,
                !.parse[e] = [form |-> form, outcome |-> "stored", content |-> content,
                              stale |-> FALSE]]

\* the state a finished call sequence leaves behind
SetParseState(st) ==
    /\ course_cache' = st.cache
    /\ m_prerebind' = st.prerebind
    /\ m_calls' = st.calls
    /\ m_reads' = st.reads
    /\ m_loaded' = st.loaded
    /\ m_after' = st.after
    /\ m_parse' = st.parse

KeepParseState ==
    UNCHANGED <<course_cache, m_prerebind, m_calls, m_reads, m_loaded, m_after, m_parse>>

Op(name, who, outcome) == [op |-> name, who |-> who, outcome |-> outcome]

Budget == m_ops < MaxOps /\ m_ops' = m_ops + 1

MainIdle ==
    /\ user_data = <<>> /\ binding_requests = <<>> /\ course_cache = <<>>
    /\ m_files = <<>> /\ m_clock = 0 /\ m_inflight = <<>> /\ m_ops = 0
    /\ m_prerebind = {} /\ m_calls = <<>> /\ m_reads = <<>> /\ m_loaded = <<>>
    /\ m_after = <<>> /\ m_inval = <<>> /\ m_parse = <<>>
    /\ m_out = Op("none", "none", "none")

\* no pending request, an empty cache, nothing in flight
MainFresh ==
    /\ binding_requests = [e \in MEntries |-> NoRequest]
    /\ course_cache = [k \in CacheKeys |-> NoEntry]
    /\ m_clock = 0
    /\ m_inflight = [e \in MEntries |-> 0]
    /\ m_ops = 0
    /\ m_prerebind = {}
    /\ m_calls = [k \in CacheKeys |-> 0]
    /\ m_reads = [k \in CacheKeys |-> 0]
    /\ m_loaded = [k \in CacheKeys |-> FALSE]
    /\ m_after = [k \in CacheKeys |-> FALSE]
    /\ m_inval = [k \in CacheKeys |-> FALSE]
    /\ m_parse = [e \in MEntries |-> NoParse]
    /\ m_out = Op("none", "none", "none")

\* the state after __init__: the registry as userdata.json holds it, the
\* files on disk, no pending request and an empty cache
MainInit ==
    /\ \/ /\ user_data = [g \in MGroups |-> NoGroup]
          /\ m_files = [e \in MEntries |-> NoFile]
       \/ /\ \E rem \in BOOLEAN :
               user_data = [g \in MGroups |->
                   [present |-> TRUE, umo |-> "umo0",
                    users |-> << [uid |-> "u1", nickname |-> "n0",
                                  reminder |-> rem] >>]]
          /\ \E c \in {"calA", "calB"} :
               m_files = [e \in MEntries |-> IF e[2] = "u1" THEN c ELSE NoFile]
    /\ MainFresh

\* time passes
Tick ==
    /\ Budget
    /\ m_clock < MaxTicks * TickSeconds
    /\ m_clock' = m_clock + TickSeconds
    /\ UNCHANGED <<user_data, binding_requests, m_files, m_inflight, m_inval, m_out>>
    /\ KeepParseState
    /\ MainFrame

\* the file of e is removed from the disk by something else
DeleteFile(e) ==
    /\ Budget
    /\ m_files[e] # NoFile
    /\ m_files' = [m_files EXCEPT ![e] = NoFile]
    /\ m_out' = Op("delete_file", e, "gone")
    /\ UNCHANGED <<user_data, binding_requests, m_clock, m_inflight, m_inval>>
    /\ KeepParseState
    /\ MainFrame

\* Main.bind_schedule (main.py:68-88)
bind_schedule(e) ==
    /\ Budget
    /\ binding_requests' = [binding_requests EXCEPT ![e] = m_clock]
    /\ m_out' = Op("bind_schedule", e, "prompted")
    /\ UNCHANGED <<user_data, m_files, m_clock, m_inflight, m_inval>>
    /\ KeepParseState
    /\ MainFrame

RequestExpired_Never(timestamp, now) == FALSE

\* main.py:108
RequestExpired(timestamp, now) == now - timestamp > RequestTimeout

\* Main.handle_file_message up to its await (main.py:91-130), for a message
\* that carries a file
handle_file_message_begin(e) ==
    /\ Budget
    /\ IF binding_requests[e] = NoRequest
       THEN \* main.py:102-103
            /\ m_out' = Op("handle_file_message", e, "ignored")
            /\ UNCHANGED <<binding_requests, m_inflight>>
       ELSE IF RequestExpired(binding_requests[e], m_clock)
       THEN \* main.py:108-110
            /\ binding_requests' = [binding_requests EXCEPT ![e] = NoRequest]
            /\ m_out' = Op("handle_file_message", e, "expired")
            /\ UNCHANGED m_inflight
       ELSE /\ m_inflight[e] < MaxInflight
            /\ m_inflight' = [m_inflight EXCEPT ![e] = @ + 1]
            /\ m_out' = Op("handle_file_message", e, "fetching")
            /\ UNCHANGED binding_requests
    /\ UNCHANGED <<user_data, m_files, m_clock, m_inval>>
    /\ KeepParseState
    /\ MainFrame

\* main.py:77, 84, 125: the sender's name as the binding request recorded it
RequestNickname == "n1"

\* main.py:168, 170: event.unified_msg_origin of the file message
EventUmo == "umo1"

PutUser_ResetsReminder(users, uid) ==
    LET i == UserIndex(users, uid)
        entry == [uid |-> uid, nickname |-> RequestNickname, reminder |-> FALSE]
    IN  IF i = 0 THEN Append(users, entry) ELSE [users EXCEPT ![i] = entry]

\* main.py:172-175: the user's entry is written, in place when there is one
PutUser(users, uid) ==
    LET i == UserIndex(users, uid)
    IN  IF i = 0
        THEN Append(users, [uid |-> uid, nickname |-> RequestNickname,
                            reminder |-> FALSE])
        ELSE [users EXCEPT ![i] = [uid |-> uid, nickname |-> RequestNickname,
                                   reminder |-> users[i].reminder]]

\* main.py:166-175
SaveBinding(ud, e) ==
    LET g == IF ~ud[e[1]].present
             THEN [present |-> TRUE, umo |-> EventUmo, users |-> <<>>]
             ELSE IF ud[e[1]].umo = NoUmo
             THEN [ud[e[1]] EXCEPT !.umo = EventUmo]
             ELSE ud[e[1]]
    IN  [ud EXCEPT ![e[1]] = [g EXCEPT !.users = PutUser(g.users, e[2])]]

\* main.py:180-181
InvalidateOnRebind(cache, e) == [cache EXCEPT ![CacheKey("str", e)] = NoEntry]

\* main.py:153, 160, 184: del self.binding_requests[request_key]
DelRequest(e) == binding_requests' = [binding_requests EXCEPT ![e] = NoRequest]

\* Main.handle_file_message from its await on (main.py:130-185).  fetched is
\* what get_file / download_file / copy2 did: "raise", "nothing" (returned
\* without writing the file), "raise_partial" (raised after the file at
\* ics_file_path was opened for writing or partly written, main.py:138, 142,
\* 146-147) or the content written.
handle_file_message_end(e, fetched) ==
    /\ Budget
    /\ m_inflight[e] > 0
    /\ m_inflight' = [m_inflight EXCEPT ![e] = @ - 1]
    /\ UNCHANGED m_clock
    /\ MainFrame
    /\ LET files == IF fetched \in Contents
                    THEN [m_files EXCEPT ![e] = fetched]
                    ELSE IF fetched = "raise_partial"
                    THEN [m_files EXCEPT ![e] = "bad"]
                    ELSE m_files
           gone == binding_requests[e] = NoRequest     \* del raises KeyError
       IN  /\ m_files' = files
           /\ IF fetched \in {"raise", "raise_partial"} \/ files[e] = NoFile
              THEN \* main.py:150-154, 157-161
                   /\ DelRequest(e)
                   /\ m_out' = Op("handle_file_message", e,
                                  IF gone THEN "unhandled" ELSE "failed")
                   /\ UNCHANGED <<user_data, m_inval>>
                   /\ KeepParseState
              ELSE \* main.py:166-185
                   LET cache == InvalidateOnRebind(course_cache, e)
                       key == CacheKey("str", e)
                   IN  /\ user_data' = SaveBinding(user_data, e)
                       /\ course_cache' = cache
                       /\ m_inval' = [m_inval EXCEPT ![key] = @ \/ course_cache[key] # NoEntry]
                       /\ m_calls' = [m_calls EXCEPT ![key] = 0]
                       /\ m_reads' = [m_reads EXCEPT ![key] = 0]
                       /\ m_loaded' = [m_loaded EXCEPT ![key] = FALSE]
                       /\ DelRequest(e)
                       /\ m_prerebind' =
                            IF gone THEN m_prerebind
                            ELSE m_prerebind \cup
                                 {k \in CacheKeys : k[2] = e /\ cache[k] # NoEntry}
                       /\ m_out' = Op("handle_file_message", e,
                                      IF gone THEN "bound_unhandled" ELSE "bound")
                       /\ UNCHANGED <<m_after, m_parse>>

\* main.py:198 and 213
SetReminder(ud, e, flag) ==
    [ud EXCEPT ![e[1]].users[UserIndex(ud[e[1]].users, e[2])].reminder = flag]

\* Main.enable_reminders / Main.disable_reminders (main.py:187-215)
set_reminders(e, flag) ==
    /\ Budget
    /\ IF IsBound(user_data, e)
       THEN /\ user_data' = SetReminder(user_data, e, flag)
            /\ m_out' = Op("set_reminders", e, IF flag THEN "enabled" ELSE "disabled")
       ELSE /\ UNCHANGED user_data
            /\ m_out' = Op("set_reminders", e, "not_bound")
    /\ UNCHANGED <<binding_requests, m_files, m_clock, m_inflight, m_inval>>
    /\ KeepParseState
    /\ MainFrame

\* what a personal query answers once the list is there
PersonalAnswer(st) ==
    IF st.raised THEN "raised"
    ELSE IF HasCourseToday(st.ret) THEN "courses" ELSE "no_courses"

\* The file of e is there at os.path.exists and, when vanish holds, gone at
\* the open that follows (something else removed it in between).
AfterExistsCheck(st, e, vanish) ==
    IF vanish THEN [st EXCEPT !.files[e] = NoFile] ELSE st

\* A personal query: Main.show_today_schedule (main.py:286-326), which hands
\* the Path to _parse_ics_file, and ScheduleHelper.get_schedule_for_date
\* (schedule_helper.py:15-65), which hands str(path).
\* ScheduleHelper's parser (self.ics_parser.parse_ics_file) is taken to be
\* Main._parse_ics_file over the same course_cache, called with the str key.
PersonalQuery(name, form, e, vanish) ==
    /\ Budget
    /\ UNCHANGED <<user_data, binding_requests, m_clock, m_inflight, m_inval>>
    /\ MainFrame
    /\ IF ~IsBound(user_data, e)
       THEN m_out' = Op(name, e, "not_bound") /\ KeepParseState /\ UNCHANGED m_files
       ELSE IF m_files[e] = NoFile
       THEN m_out' = Op(name, e, "file_missing") /\ KeepParseState /\ UNCHANGED m_files
       ELSE LET st == _parse_ics_file(AfterExistsCheck(ParseState, e, vanish), form, e)
            IN  /\ SetParseState(st)
                /\ m_files' = st.files
                /\ m_out' = Op(name, e, PersonalAnswer(st))

show_today_schedule(e, vanish) == PersonalQuery("show_today_schedule", "path", e, vanish)
get_schedule_for_date(e, vanish) == PersonalQuery("get_schedule_for_date", "str", e, vanish)

\* main.py:342-348 / schedule_helper.py:88-94: the loop over the group's
\* users, which stops where a parse raises
RECURSIVE GroupLoop(_, _, _, _, _, _)
GroupLoop(st, users, i, g, form, gone) ==
    IF i > Len(users) \/ st.raised THEN st
    ELSE LET e == <<g, users[i].uid>>
         IN  IF st.files[e] = NoFile
             THEN GroupLoop(st, users, i + 1, g, form, gone)
             ELSE GroupLoop([_parse_ics_file(AfterExistsCheck(st, e, e \in gone), form, e)
                                EXCEPT !.ret = "entry"],
                            users, i + 1, g, form, gone)

\* A group query: Main.show_group_schedule (main.py:328-417) with the Path
\* as key, ScheduleHelper.get_group_schedule_for_date
\* (schedule_helper.py:67-172) with str(path).
GroupQuery(name, form, g, gone) ==
    /\ Budget
    /\ UNCHANGED <<user_data, binding_requests, m_clock, m_inflight, m_inval>>
    /\ MainFrame
    /\ IF ~user_data[g].present
       THEN m_out' = Op(name, g, "no_group") /\ KeepParseState /\ UNCHANGED m_files
       ELSE LET st == GroupLoop(ParseState, user_data[g].users, 1, g, form, gone)
            IN  /\ SetParseState(st)
                /\ m_files' = st.files
                /\ m_out' = Op(name, g, IF st.raised THEN "raised"
                                        ELSE IF st.ret = "entry" THEN "list" ELSE "nobody")

show_group_schedule(g, gone) == GroupQuery("show_group_schedule", "path", g, gone)
get_group_schedule_for_date(g, gone) ==
    GroupQuery("get_group_schedule_for_date", "str", g, gone)

\* the files that may go between a group query's check and its read: none or one
GoneSets == {{}} \cup {{e} : e \in MEntries}

\* The reminder sweep reaching one user (main.py:651-660): the parse it
\* makes, with str(path) as key; an exception ends the sweep (main.py:689).
reminder_parse(e, vanish) ==
    /\ Budget
    /\ IsBound(user_data, e)
    /\ user_data[e[1]].umo # NoUmo
    /\ user_data[e[1]].users[UserIndex(user_data[e[1]].users, e[2])].reminder
    /\ m_files[e] # NoFile
    /\ LET st == _parse_ics_file(AfterExistsCheck(ParseState, e, vanish), "str", e)
       IN  /\ SetParseState(st)
           /\ m_files' = st.files
           /\ m_out' = Op("_reminder_task", e, IF st.raised THEN "sweep_aborted" ELSE "scanned")
    /\ UNCHANGED <<user_data, binding_requests, m_clock, m_inflight, m_inval>>
    /\ MainFrame

Fetched == Contents \cup {"raise", "raise_partial", "nothing"}

\* a file message that arrives while no other one is being handled
handle_file_message_alone(e) ==
    /\ \A x \in MEntries : m_inflight[x] = 0
    /\ handle_file_message_begin(e)

Next ==
    \/ Tick
    \/ \E e \in MEntries : DeleteFile(e)
    \/ \E e \in MEntries : bind_schedule(e)
    \/ \E e \in MEntries : handle_file_message_alone(e)
    \/ \E e \in MEntries, f \in Fetched : handle_file_message_end(e, f)
    \/ \E e \in MEntries, flag \in BOOLEAN : set_reminders(e, flag)
    \/ \E e \in MEntries, vanish \in BOOLEAN : show_today_schedule(e, vanish)
    \/ \E e \in MEntries, vanish \in BOOLEAN : get_schedule_for_date(e, vanish)
    \/ \E g \in MGroups, gone \in GoneSets : show_group_schedule(g, gone)
    \/ \E g \in MGroups, gone \in GoneSets : get_group_schedule_for_date(g, gone)
    \/ \E e \in MEntries, vanish \in BOOLEAN : reminder_parse(e, vanish)

Init == MainInit /\ ClsIdle /\ ExpIdle /\ QryIdle /\ RemIdle /\ GrpIdle
Spec == Init /\ [][Next]_vars

(***************************************************************************)
(* C1: after a successful rebinding no _parse_ics_file call for that file  *)
(* is answered from a list cached before the rebinding, whichever form of  *)
(* key the caller passes.                                                  *)
(***************************************************************************)
C1_NoStaleAfterRebind ==
    m_ops > 0 => \A e \in MEntries : ~m_parse[e].stale

(***************************************************************************)
(* C2 as claimed: of the calls made for a key since its last invalidation  *)
(* (or since the start), exactly one reads the file.                       *)
(***************************************************************************)
C2_ExactlyOneRead ==
    m_ops > 0 => \A k \in CacheKeys : m_calls[k] >= 1 => m_reads[k] = 1

(***************************************************************************)
(* C2 as amended: the first call for a key since its last invalidation     *)
(* reads the file, and once a call has read and parsed the file, no later  *)
(* call for that key reads it until the key is invalidated.                *)
(***************************************************************************)
C2_ReadOnceWhenLoaded ==
    m_ops > 0 => \A k \in CacheKeys :
        /\ m_calls[k] >= 1 => m_reads[k] >= 1
        /\ ~m_after[k]
        /\ m_loaded[k] => course_cache[k] # NoEntry

\* a key was invalidated by a rebinding, read again by the next call and
\* served from the cache by the call after that
C2_Witness ==
    \E k \in CacheKeys :
        m_inval[k] /\ m_calls[k] = 2 /\ m_reads[k] = 1 /\ m_loaded[k]
        /\ course_cache[k] # NoEntry

(***************************************************************************)
(* C8: a structurally malformed calendar never makes a query raise: the    *)
(* query answers with a message and a failure discriminant.                *)
(***************************************************************************)
QueryOps == {"show_today_schedule", "get_schedule_for_date",
             "show_group_schedule", "get_group_schedule_for_date"}
C8_QueriesNeverRaise ==
    (m_ops > 0 /\ m_out.op \in QueryOps) => m_out.outcome # "raised"

PersonalOps == {"show_today_schedule", "get_schedule_for_date"}

(***************************************************************************)
(* C20: a user without a binding, or whose file is missing or unreadable   *)
(* (also when it goes between the existence check and the read), is        *)
(* answered 'not bound / please rebind', never 'no courses'.               *)
(***************************************************************************)
C20_AbsenceIsDistinct ==
    (m_ops > 0 /\ m_out.op \in PersonalOps) =>
        /\ ~IsBound(user_data, m_out.who) => m_out.outcome = "not_bound"
        /\ (IsBound(user_data, m_out.who) /\ m_files[m_out.who] = NoFile)
              => m_out.outcome = "file_missing"

InitReminder == RemInit /\ ClsIdle /\ ExpIdle /\ QryIdle /\ MainIdle /\ GrpIdle
SpecReminder == InitReminder /\ [][RemNext]_vars

\* the users a sweep has to look at: reminder on, in a group with an address
RemPositions ==
    UNION {{<<gi, ui>> : ui \in 1..Len(r_user_data[gi].users)} : gi \in 1..Len(r_user_data)}
RemEnabled ==
    {RemEntry(p[1], p[2]) :
        p \in {x \in RemPositions : RemGroup(x[1]).umo /\ RemUser(x[1], x[2]).reminder}}

(***************************************************************************)
(* C5: over all sweeps of one process, at most one notification is sent    *)
(* for a (user, occurrence start) pair.                                    *)
(***************************************************************************)
C5_AtMostOneNotification ==
    r_pc # "idle" => \A p \in RemPairs : r_log[p] <= 1

\* u1 is registered in both groups with the same course, the sweep met the
\* course twice (and its same-start sibling) and one notification went out
C5_Witness ==
    /\ r_pc = "sleep"
    /\ r_sweeps >= 2
    /\ <<"g1", "u1">> \in RemEnabled /\ <<"g2", "u1">> \in RemEnabled
    /\ r_files[<<"g1", "u1">>] = "ok" /\ r_files[<<"g2", "u1">>] = "ok"
    /\ {<<"g1", "u1">>, <<"g2", "u1">>} \subseteq r_examined
    /\ r_now = RemT0 + SleepSeconds
    /\ r_log[<<"u1", RemStartA>>] = 1

(***************************************************************************)
(* C6: a failure while handling one user does not abort the sweep: when    *)
(* the sweep is over, every reminder-enabled user has been examined.       *)
(***************************************************************************)
C6_SweepSurvivesFailure ==
    r_pc = "sleep" => RemEnabled \subseteq r_examined

\* the notification about to be sent: the user and the course at hand
RemSending == r_pc = "send"
RemSendUser == RemUser(r_gi, r_ui)
RemSendCourse == Head(r_due)

(***************************************************************************)
(* C17: a sweep at instant now sends a notification only for one of        *)
(* today's courses of a reminder-enabled user that starts at least 1800 s  *)
(* and less than 1860 s after now.                                         *)
(***************************************************************************)
C17_OnlyInsideWindow ==
    RemSending =>
        /\ RemGroup(r_gi).umo
        /\ RemSendUser.reminder
        /\ RemSendCourse \in SeqRange(RemCoursesOf(RemEntry(r_gi, r_ui)))
        /\ LocalDateS(RemSendCourse.start_time) = LocalDateS(r_now)
        /\ 1800 <= RemSendCourse.start_time - r_now
        /\ RemSendCourse.start_time - r_now < 1860

\* u2 has one course exactly 1860 s away (no notification) and one 1800 s away
\* (being sent)
C17_Witness ==
    /\ RemSending
    /\ RemEntry(r_gi, r_ui) = <<"g1", "u2">>
    /\ RemStartC - r_now = 1860
    /\ RemSendCourse.start_time - r_now = 1800
    /\ r_log[<<"u2", RemStartC>>] = 0

\* a notification for the key has been delivered
Delivered(key, log) ==
    \E p \in RemPairs : ReminderKey(p[1], p[2]) = key /\ log[p] > 0

(***************************************************************************)
(* C18: a key enters the fired set only with the return of its send: a     *)
(* send that raises records nothing, and a course found in the window      *)
(* whose notification has not been delivered is sent, not skipped.         *)
(***************************************************************************)
C18_RecordedAfterSend ==
    [][/\ \A key \in sent_reminders' \ sent_reminders :
             /\ r_pc = "send" /\ r_pc' = "due"
             /\ key = ReminderKey(RemSendUser.uid, RemSendCourse.start_time)
             /\ Delivered(key, r_log')
       /\ (r_pc = "send" /\ r_raised') => sent_reminders' = sent_reminders
       /\ (/\ r_pc = "due" /\ r_due # <<>>
           /\ ~Delivered(ReminderKey(RemSendUser.uid, RemSendCourse.start_time), r_log))
              => r_pc' = "send"]_vars

\* the send of the first notification raised: the sweep is over, nothing was
\* delivered and nothing is recorded
C18_Witness ==
    /\ r_pc = "sleep" /\ r_raised
    /\ r_files[RemEntry(r_gi, r_ui)] = "ok"
    /\ DueCourses(RemCoursesOf(RemEntry(r_gi, r_ui)), r_now) # <<>>
    /\ sent_reminders = {}
    /\ \A p \in RemPairs : r_log[p] = 0

\* the event loop resumes the task: asyncio.sleep returns, and a send that is
\* awaited returns or raises
SpecReminderLive == InitReminder /\ [][RemNext]_vars /\ WF_vars(RemNext)

(***************************************************************************)
(* C19: a sweep that raised does not stop the scanner: the loop sleeps and *)
(* the next sweep runs.                                                    *)
(***************************************************************************)
C19_NextSweepRuns ==
    \A k \in 1..(MaxSweeps - 1) :
        (r_raised /\ r_sweeps = k) ~> (r_pc = "scan" /\ r_sweeps = k + 1)

\* the second sweep has begun after a first one that raised on u1's calendar
C19_Witness ==
    /\ r_pc = "scan" /\ r_sweeps = 2 /\ ~r_raised
    /\ r_user_data[1].users[1].reminder
    /\ r_files[<<"g1", "u1">>] = "bad"

InitQuery == QryInit /\ ClsIdle /\ ExpIdle /\ RemIdle /\ MainIdle /\ GrpIdle
SpecQuery == InitQuery /\ [][QryNext]_vars

\* the user's occurrences of the queried day, as a set
QryDay == SeqRange(TargetDateCourses(ExpandCalendar(q_cal, q_now).courses, q_target))
QryInProgress == {c \in QryDay : c.start_time <= q_now /\ q_now < c.end_time}
QryFuture == {c \in QryDay : c.start_time > q_now}
QryTodayCase == q_pc = "done" /\ q_is_today /\ q_target = LocalDate(q_now)

CurrentOrNextOk(r) ==
    IF QryInProgress # {} THEN r \in QryInProgress
    ELSE IF QryFuture # {}
    THEN r \in QryFuture /\ \A c \in QryFuture : r.start_time <= c.start_time
    ELSE r = NoCourse

(***************************************************************************)
(* C9: for today, an in-progress occurrence is returned when there is one; *)
(* otherwise the occurrence with the minimum start among those still to    *)
(* come; none only when nothing is in progress or to come.                 *)
(***************************************************************************)
C9_CurrentOrNext ==
    QryTodayCase => CurrentOrNextOk(q_helper) /\ CurrentOrNextOk(q_main)

\* two occurrences still to come, met latest first, and the earlier is returned
C9_Witness ==
    /\ QryTodayCase
    /\ QryInProgress = {}
    /\ LET day == TargetDateCourses(ExpandCalendar(q_cal, q_now).courses, q_target)
       IN  /\ Len(day) = 2
           /\ day[1].start_time > day[2].start_time
           /\ day[2].start_time > q_now
           /\ q_helper = day[2] /\ q_main = day[2]

(***************************************************************************)
(* C10: for today, when several occurrences contain now, the one returned  *)
(* is the one with the earliest start among them.                          *)
(***************************************************************************)
C10_EarliestInProgress ==
    (QryTodayCase /\ QryInProgress # {}) =>
        /\ \A c \in QryInProgress : q_helper.start_time <= c.start_time
        /\ \A c \in QryInProgress : q_main.start_time <= c.start_time

\* a list of courses in ascending start order
AscendingByStart(list) ==
    \A i, j \in 1..Len(list) : i < j => list[i].start_time <= list[j].start_time

\* list holds each course of the set once and nothing else
HoldsExactly(list, set) ==
    SeqRange(list) = set /\ Len(list) = Cardinality(set)

QryParsed == SeqRange(ExpandCalendar(q_cal, q_now).courses)
QryOnDate(d) == {c \in QryParsed : LocalDate(c.start_time) = d}
QryAfterNow(d) == {c \in QryOnDate(d) : c.start_time > q_now}

(***************************************************************************)
(* C11: the personal schedule of a date is, in ascending start order,      *)
(* exactly the user's occurrences of that date, restricted to those that   *)
(* start after now when and only when the date is today.                   *)
(***************************************************************************)
C11_ScheduleForDate ==
    q_pc = "done" =>
        /\ AscendingByStart(q_sched)
        /\ AscendingByStart(q_today)
        /\ HoldsExactly(q_today, QryAfterNow(LocalDate(q_now)))
        /\ IF q_target = LocalDate(q_now)
           THEN HoldsExactly(q_sched, QryAfterNow(q_target))
           ELSE HoldsExactly(q_sched, QryOnDate(q_target))

\* today: the course met first starts exactly at now and is left out, the one
\* met second is to come and is returned
C11_Witness ==
    /\ q_pc = "done"
    /\ q_target = LocalDate(q_now)
    /\ \E c \in QryOnDate(q_target) : c.start_time = q_now /\ c.summary = 1
    /\ Len(q_sched) = 1 /\ q_sched = q_today
    /\ q_sched[1].summary = 2

(***************************************************************************)
(* C12: when is_today is false, the group query returns the occurrence     *)
(* with the minimum start among the day's occurrences, whatever now is.    *)
(***************************************************************************)
C12_EarliestWhenNotToday ==
    (q_pc = "done" /\ ~q_is_today) =>
        IF QryDay = {} THEN q_helper = NoCourse
        ELSE /\ q_helper \in QryDay
             /\ \A c \in QryDay : q_helper.start_time <= c.start_time

\* the earliest course of the day is over at now, another one is in progress
C12_Witness ==
    /\ q_pc = "done" /\ ~q_is_today
    /\ QryInProgress # {}
    /\ q_helper \in QryDay
    /\ q_helper.end_time <= q_now

InitExpand == ExpInit /\ ClsIdle /\ QryIdle /\ RemIdle /\ MainIdle /\ GrpIdle
SpecExpand == InitExpand /\ [][ExpNext]_vars

\* the occurrences of template idx in a course list, as a set of starts
StartsOf(courses, idx) ==
    {courses[i].start_time : i \in {j \in 1..Len(courses) : courses[j].summary = idx}}

(***************************************************************************)
(* C3: a recurring template expanded at now yields exactly the rule's      *)
(* instants in [start of the local day of now, that + 365 days], both ends *)
(* inclusive.                                                              *)
(***************************************************************************)
C3_RecurringWindowIsLocalDay ==
    (e_pc = "done" /\ ~e_result.raised) =>
        \A i \in 1..Len(e_cal) :
            e_cal[i].rule.kind = "rrule" =>
                LET lo == LocalDayStart(LocalDate(e_now))
                    hi == lo + HorizonDays * HoursPerDay
                IN  StartsOf(e_result.courses, i) = SeqRange(RuleBetween(e_cal[i], lo, hi))

(***************************************************************************)
(* C7: a VEVENT with a malformed rule contributes nothing, its siblings    *)
(* are still expanded, and the parse does not fail.                        *)
(***************************************************************************)
C7_MalformedRuleIsLocal ==
    e_pc = "done" =>
        /\ ~e_result.raised
        /\ \A i \in 1..Len(e_cal) :
              IF RuleRaises(e_cal[i])
              THEN StartsOf(e_result.courses, i) = {}
              ELSE StartsOf(e_result.courses, i)
                       = {c.start_time : c \in SeqRange(ExpandTemplate(i, e_cal[i], e_now))}

\* what template idx has put on the list when the parse is left
OccurrencesOf(idx) ==
    LET Mine(c) == c.summary = idx
    IN  SelectSeq(e_result.appended, Mine)

\* the templates the parse has expanded
Expanded == 1..e_result.reached

\* the window of the reference day: [start of the local day of now, + 365 days]
RefDayStart == LocalDayStart(LocalDate(e_now))
HorizonEnd == RefDayStart + HorizonDays * HoursPerDay

(***************************************************************************)
(* C13: a template without a rule yields no occurrence when its local      *)
(* start date is before the reference day, and otherwise exactly one, with *)
(* the template's own start and end.                                       *)
(***************************************************************************)
C13_NonRecurring ==
    e_pc = "done" =>
        \A i \in Expanded :
            e_cal[i].rule.kind = "none" =>
                IF LocalDate(e_cal[i].dtstart) < LocalDate(e_now)
                THEN OccurrencesOf(i) = <<>>
                ELSE /\ Len(OccurrencesOf(i)) = 1
                     /\ OccurrencesOf(i)[1].start_time = e_cal[i].dtstart
                     /\ OccurrencesOf(i)[1].end_time = e_cal[i].dtstart + e_cal[i].dur

\* two templates of one local day, parsed late on that day (both kept although
\* they have started) or early on the next (both dropped)
C13_Witness ==
    /\ e_pc = "done" /\ Len(e_cal) = 2
    /\ e_cal[1].rule.kind = "none" /\ e_cal[2].rule.kind = "none"
    /\ e_cal[1].dtstart < e_now
    /\ LocalDate(e_cal[1].dtstart) = LocalDate(e_now)
    /\ LocalDate(e_cal[2].dtstart) < LocalDate(e_now)
    /\ Len(e_result.courses) = 1
    /\ e_result.courses[1].summary = 1

(***************************************************************************)
(* C14: a rule with COUNT=N yields at most N occurrences, all within the   *)
(* window of the reference day, strictly ascending by start, each as long  *)
(* as the template.                                                        *)
(***************************************************************************)
C14_CountBounded ==
    e_pc = "done" =>
        \A i \in Expanded :
            (e_cal[i].rule.kind = "rrule" /\ e_cal[i].rule.count # NoCount) =>
                LET occ == OccurrencesOf(i)
                IN  /\ Len(occ) <= e_cal[i].rule.count
                    /\ \A k \in 1..Len(occ) :
                          /\ RefDayStart <= occ[k].start_time
                          /\ occ[k].start_time <= HorizonEnd
                          /\ occ[k].end_time - occ[k].start_time = e_cal[i].dur
                    /\ \A k \in 1..(Len(occ) - 1) :
                          occ[k].start_time < occ[k + 1].start_time

(***************************************************************************)
(* C15: a rule with neither UNTIL nor COUNT yields a finite list in which  *)
(* no occurrence starts later than the reference day start plus 365 days.  *)
(***************************************************************************)
C15_BoundedByHorizon ==
    e_pc = "done" =>
        \A i \in Expanded :
            (/\ e_cal[i].rule.kind = "rrule"
             /\ e_cal[i].rule.count = NoCount
             /\ e_cal[i].rule.until = NoUntil
             /\ e_cal[i].rule.until_date = NoUntil) =>
                \A k \in 1..Len(OccurrencesOf(i)) :
                    OccurrencesOf(i)[k].start_time <= HorizonEnd

\* the instant the rule of template t generates on local day d, as a set
RuleInstantOn(t, d) ==
    {x \in {t.dtstart + k * t.rule.interval * HoursPerDay : k \in 0..(d + 1)} :
        LocalDate(x) = d}

(***************************************************************************)
(* C16: with a bare date as UNTIL, the occurrence the rule generates on    *)
(* that date is in the expansion (when the date lies in the window of the  *)
(* reference day) and no occurrence of a later date is.                    *)
(***************************************************************************)
C16_UntilDateInclusive ==
    e_pc = "done" =>
        \A i \in Expanded :
            (e_cal[i].rule.kind = "rrule" /\ e_cal[i].rule.until_date # NoUntil) =>
                LET d == e_cal[i].rule.until_date
                    starts == {OccurrencesOf(i)[k].start_time : k \in 1..Len(OccurrencesOf(i))}
                IN  /\ \A x \in starts : LocalDate(x) <= d
                    /\ \A x \in RuleInstantOn(e_cal[i], d) :
                          (RefDayStart <= x /\ x <= HorizonEnd) => x \in starts


InitClassify == ClsInit /\ ExpIdle /\ QryIdle /\ RemIdle /\ MainIdle /\ GrpIdle
SpecClassify == InitClassify /\ [][ClsNext]_vars

(***************************************************************************)
(* C4: the classifier returns InProgress exactly when start <= now < end,  *)
(* Upcoming exactly when now < start and Finished exactly when now >= end; *)
(* now = start is InProgress and now = end is Finished.                    *)
(***************************************************************************)
ExpectedStatus(s, e, n) ==
    IF s <= n /\ n < e THEN "InProgress"
    ELSE IF n < s THEN "Upcoming" ELSE "Finished"

C4_ClassifierBoundaries ==
    (c_pc = "done" /\ c_start # NoTime) =>
        /\ c_gen.status = ExpectedStatus(c_start, c_end, c_now)
        /\ c_main.status = ExpectedStatus(c_start, c_end, c_now)

(***************************************************************************)
(* C21: a remaining or until duration is rendered with hours and minutes   *)
(* when it is at least 61 whole minutes and with minutes alone otherwise   *)
(* (exactly 60 minutes is "60 minutes"); in the hours form                 *)
(* hours * 60 + minutes is the whole-minute duration and 0 <= minutes < 60.*)
(***************************************************************************)
WholeMinutes(ticks) == (ticks \div TicksPerSecond) \div SecondsPerMinute

RenderedAs(detail, m) ==
    IF m >= MinutesPerHour + 1
    THEN /\ detail.form = "HM"
         /\ detail.hours * MinutesPerHour + detail.minutes = m
         /\ 0 <= detail.minutes /\ detail.minutes < MinutesPerHour
    ELSE detail.form = "M" /\ detail.minutes = m

\* a row that is in progress shows the time to its end, an upcoming one the
\* time to its start
DurationRendered(r) ==
    /\ (c_start <= c_now /\ c_now < c_end /\ r.status = "InProgress")
            => RenderedAs(r.detail, WholeMinutes(c_end - c_now))
    /\ (c_now < c_start /\ r.status = "Upcoming")
            => RenderedAs(r.detail, WholeMinutes(c_start - c_now))

C21_DurationRendering ==
    c_pc = "done" => DurationRendered(c_gen) /\ DurationRendered(c_main)

(***************************************************************************)
(* The reminder task next to a binding that completes during a send.       *)
(***************************************************************************)
SpecReminderBinding == InitReminder /\ [][RemNextBinding]_vars

NoBadFile == \A e \in RemEnabled : r_files[e] # "bad"

(***************************************************************************)
(* C24: when a binding that adds a new user or a new group completes while *)
(* the sweep is suspended in send_message, the sweep still examines every  *)
(* reminder-enabled user that was registered when it began.                *)
(***************************************************************************)
C24_SweepSurvivesBinding ==
    (r_pc = "sleep" /\ r_grew # "none" /\ NoBadFile) => RemEnabled \subseteq r_examined

(***************************************************************************)
(* The reminder task when every send goes through.                         *)
(***************************************************************************)
SpecReminderSendsOk == InitReminder /\ [][RemNextSendsOk]_vars

\* the first sweep, at RemT0, met the course as one of today, more than 31
\* minutes away
SeenEarly(c) ==
    /\ LocalDateS(c.start_time) = LocalDateS(RemT0)
    /\ c.start_time - RemT0 > ReminderHi
\* the sweep that just ended found the course less than 30 minutes away
PastWindow(c) == c.start_time - r_now < ReminderLo

(***************************************************************************)
(* C25: with the task running and every send succeeding, an occurrence of  *)
(* today of a reminder-enabled user (file present, group address known)    *)
(* that some sweep met more than 31 minutes ahead does not get through the *)
(* [30 min, 31 min) window unnoticed: once a sweep finds it less than 30   *)
(* minutes ahead, it has been notified.                                    *)
(***************************************************************************)
C25_NoOccurrenceSkipped ==
    (r_pc = "sleep" /\ NoBadFile) =>
        \A e \in RemEnabled :
            r_files[e] = "ok" =>
                \A i \in 1..Len(RemCoursesOf(e)) :
                    LET c == RemCoursesOf(e)[i]
                    IN  (SeenEarly(c) /\ PastWindow(c)) => r_log[<<e[2], c.start_time>>] >= 1

(***************************************************************************)
(* Queries answered from a cache entry of some age.                        *)
(***************************************************************************)
InitCached == CachedInit /\ ClsIdle /\ ExpIdle /\ RemIdle /\ MainIdle /\ GrpIdle
SpecCached == InitCached /\ [][CachedNext]_vars

FreshCourses == ExpandCalendar(q_cal, q_now).courses

(***************************************************************************)
(* C26: an answer served from the cache is the answer a fresh expansion    *)
(* at the query instant gives, for the occurrences of the queried date and *)
(* for the current-or-next occurrence, whatever the age of the entry.      *)
(***************************************************************************)
C26_CachedEqualsFresh ==
    q_pc = "done" =>
        /\ q_sched = ScheduleForDate(FreshCourses, q_target, q_now)
        /\ q_today = TodaySchedule(FreshCourses, q_now)
        /\ q_helper = HelperCurrentOrNext(FreshCourses, q_target, q_is_today, q_now)
        /\ q_main = MainCurrentOrNext(FreshCourses, q_now)

(***************************************************************************)
(* The binding specification: requests, file messages (several of them in  *)
(* flight at once), the reminder switch and a cached query, over           *)
(* registries that already hold one or two users.                          *)
(***************************************************************************)
BoundUser(uid, rem) == [uid |-> uid, nickname |-> "n0", reminder |-> rem]

BindInit ==
    /\ \/ /\ user_data = [g \in MGroups |-> NoGroup]
          /\ m_files = [e \in MEntries |-> NoFile]
       \/ \E umo \in {NoUmo, "umo0"}, rem \in BOOLEAN, second \in BOOLEAN :
            /\ user_data = [g \in MGroups |->
                  [present |-> TRUE, umo |-> umo,
                   users |-> << BoundUser("u1", rem) >> \o
                             (IF second THEN << BoundUser("u2", TRUE) >> ELSE << >>)]]
            /\ m_files = [e \in MEntries |->
                  IF e[2] = "u1" \/ second THEN "calA" ELSE NoFile]
    /\ MainFresh

BindNext ==
    \/ Tick
    \/ \E e \in MEntries : bind_schedule(e)
    \/ \E e \in MEntries : handle_file_message_begin(e)
    \/ \E e \in MEntries, f \in Fetched : handle_file_message_end(e, f)
    \/ \E e \in MEntries, flag \in BOOLEAN : set_reminders(e, flag)
    \/ \E e \in MEntries : get_schedule_for_date(e, FALSE)

InitBinding == BindInit /\ ClsIdle /\ ExpIdle /\ QryIdle /\ RemIdle /\ GrpIdle
SpecBinding == InitBinding /\ [][BindNext]_vars

\* the step is the arrival of a file message of e that is admitted to the fetch
Admitted(e) == m_inflight'[e] > m_inflight[e]
\* the step is the end of a file message of e, with the given outcomes
Ended(e, outcomes) ==
    /\ m_inflight'[e] < m_inflight[e]
    /\ m_out'.outcome \in outcomes
\* the step is the arrival of a file message of e that is turned away
TurnedAway(e) ==
    /\ m_ops' = m_ops + 1
    /\ m_out' # m_out \/ binding_requests' # binding_requests
    /\ m_out'.op = "handle_file_message" /\ m_out'.who = e
    /\ m_out'.outcome \in {"ignored", "expired"}

\* what e is bound to: the registry entry apart from the reminder switch,
\* and the calendar file
Binding(ud, files, e) ==
    IF IsBound(ud, e)
    THEN <<ud[e[1]].users[UserIndex(ud[e[1]].users, e[2])].nickname, files[e]>>
    ELSE <<"unbound", files[e]>>

(***************************************************************************)
(* C22: a file message of (group, user) is admitted to a binding only when *)
(* a request of that (group, user) is pending and was recorded at most 60  *)
(* seconds earlier, and only an admitted message binds; a file that comes  *)
(* with no pending request or more than 60 seconds after it changes        *)
(* neither the registry nor the cache and leaves no request behind.        *)
(***************************************************************************)
C22_BindingNeedsFreshRequest ==
    [][\A e \in MEntries :
        /\ Admitted(e) =>
              /\ binding_requests[e] # NoRequest
              /\ m_clock - binding_requests[e] <= RequestTimeout
        /\ Binding(user_data', m_files', e) # Binding(user_data, m_files, e)
              => m_inflight[e] > 0
        /\ TurnedAway(e) =>
              /\ user_data' = user_data
              /\ course_cache' = course_cache
              /\ binding_requests'[e] = NoRequest]_vars

\* a file came more than 60 seconds after the request of a user whose
\* calendar is cached: it was turned away and the request is gone
C22_Witness ==
    \E e \in MEntries :
        /\ m_out = Op("handle_file_message", e, "expired")
        /\ m_clock > RequestTimeout
        /\ binding_requests[e] = NoRequest
        /\ course_cache[CacheKey("str", e)] # NoEntry

(***************************************************************************)
(* C23: a pending request is consumed by at most one file message: of two  *)
(* file messages of the same (group, user) in flight at once, at most one  *)
(* completes a binding, and none ends in an unhandled error when it        *)
(* removes the request.                                                    *)
(***************************************************************************)
C23_RequestConsumedOnce ==
    m_out.op = "handle_file_message" =>
        m_out.outcome \notin {"unhandled", "bound_unhandled"}

\* what a personal query of e would answer in the state given by the
\* registry, the cache and the files (main.py:286-326, schedule_helper.py:15-65)
QueryAnswer(ud, cache, files, form, e) ==
    IF ~IsBound(ud, e) THEN "not_bound"
    ELSE IF files[e] = NoFile THEN "file_missing"
    ELSE PersonalAnswer(_parse_ics_file(
             [ParseState EXCEPT !.cache = cache, !.files = files], form, e))

SameAnswers(e) ==
    \A form \in KeyForms :
        QueryAnswer(user_data', course_cache', m_files', form, e)
            = QueryAnswer(user_data, course_cache, m_files, form, e)

(***************************************************************************)
(* C27: a binding attempt that fails (the fetch raises, or no file is      *)
(* there afterwards) leaves the registry and the cache as they were,       *)
(* removes the pending request and leaves the calendar the user had bound  *)
(* in effect: the user's queries answer as before the attempt.             *)
(***************************************************************************)
C27_FailedBindingChangesNothing ==
    [][\A e \in MEntries :
        Ended(e, {"failed", "unhandled"}) =>
            /\ user_data' = user_data
            /\ course_cache' = course_cache
            /\ binding_requests'[e] = NoRequest
            /\ SameAnswers(e)]_vars

UserEntry(ud, e) == ud[e[1]].users[UserIndex(ud[e[1]].users, e[2])]

\* every entry of the registry but the one of e is the same before and after
OthersUntouched(e) ==
    LET old == user_data[e[1]].users
        new == user_data'[e[1]].users
    IN  /\ \A g \in MGroups \ {e[1]} : user_data'[g] = user_data[g]
        /\ \A i \in 1..Len(old) :
              old[i].uid # e[2] => (i <= Len(new) /\ new[i] = old[i])
        /\ \A j \in 1..Len(new) :
              new[j].uid # e[2] => (j <= Len(old) /\ old[j] = new[j])

(***************************************************************************)
(* C29: a successful binding changes the entry of the binding user only:   *)
(* the user's reminder flag stays what it was (false on a first binding),  *)
(* the group keeps its address when it has one, and the entries of the     *)
(* other users stay as they are; switching reminders on or off for a user  *)
(* who is not bound changes nothing.                                       *)
(***************************************************************************)
C29_BindingTouchesOwnEntryOnly ==
    [][\A e \in MEntries :
        /\ Ended(e, {"bound", "bound_unhandled"}) =>
              /\ IsBound(user_data', e)
              /\ UserEntry(user_data', e).reminder
                    = (IF IsBound(user_data, e) THEN UserEntry(user_data, e).reminder
                       ELSE FALSE)
              /\ (user_data[e[1]].present /\ user_data[e[1]].umo # NoUmo)
                    => user_data'[e[1]].umo = user_data[e[1]].umo
              /\ OthersUntouched(e)
        /\ (m_ops' = m_ops + 1 /\ m_out' = Op("set_reminders", e, "not_bound"))
              => UNCHANGED <<user_data, binding_requests, course_cache, m_files>>]_vars

\* u1 bound again with reminders on: the flag is still on, the entry has the
\* new nickname, the group its old address and u2 its entry
C29_Witness ==
    LET e == <<"g1", "u1">>
    IN  /\ m_out = Op("handle_file_message", e, "bound")
        /\ IsBound(user_data, e)
        /\ UserEntry(user_data, e) =
              [uid |-> "u1", nickname |-> RequestNickname, reminder |-> TRUE]
        /\ user_data["g1"].umo = "umo0"
        /\ Len(user_data["g1"].users) = 2
        /\ user_data["g1"].users[2] = BoundUser("u2", TRUE)

(***************************************************************************)
(* The group query on its own.                                             *)
(***************************************************************************)
InitGroup == GrpInit /\ ClsIdle /\ ExpIdle /\ QryIdle /\ RemIdle /\ MainIdle
SpecGroup == InitGroup /\ [][GrpNext]_vars

EntriesOf(list, u) == {k \in 1..Len(list) : list[k].user_id = u}
IsPlaceholder(x) == x.start_time = NoTime /\ x.end_time = NoTime
\* x shows a course of the user's file that lies on the given date
IsOccurrenceOf(x, courses, date) ==
    /\ x.start_time # NoTime
    /\ LocalDate(x.start_time) = date
    /\ \E j \in 1..Len(courses) :
          /\ courses[j].summary = x.summary
          /\ courses[j].start_time = x.start_time
          /\ courses[j].end_time = x.end_time

ListAsClaimed(list, date) ==
    /\ \A i \in 1..Len(GrpUsers) :
          /\ Cardinality(EntriesOf(list, GrpUsers[i]))
                = (IF g_files[i].state = "none" THEN 0 ELSE 1)
          /\ \A k \in EntriesOf(list, GrpUsers[i]) :
                IsPlaceholder(list[k]) \/ IsOccurrenceOf(list[k], g_files[i].courses, date)
    /\ \A k, l \in 1..Len(list) :
          k < l =>
            /\ IsPlaceholder(list[k]) => IsPlaceholder(list[l])
            /\ (~IsPlaceholder(list[k]) /\ ~IsPlaceholder(list[l]))
                  => list[k].start_time <= list[l].start_time

(***************************************************************************)
(* C28: the group query returns exactly one entry for every user of the    *)
(* group whose file exists, the user's occurrence or a placeholder with    *)
(* start_time None, and none for a user whose file is missing; entries     *)
(* with an occurrence come before the placeholders, in ascending start     *)
(* order.                                                                  *)
(***************************************************************************)
C28_OneEntryPerUser ==
    g_pc = "done" =>
        /\ ListAsClaimed(g_helper.list, g_target)
        /\ ListAsClaimed(g_main.list, LocalDate(g_now))

====
